---- MODULE Spec2Model ----
(***************************************************************************)
(* Model of the GRIB partial-download Reader of grib-downloading-lab:      *)
(*   src/python/download_partial_grib.py   (variant "partial")             *)
(*   src/python/grib_downloading_lab.py    (variant "lab")                 *)
(*   src/python/src/download_utils.py      (aws_cp used by "lab")          *)
(*   src/python/src/ThreadTimer.py         (the timer of the benchmark)    *)
(*                                                                         *)
(* Python strings are sequences of atoms.  An atom is one character where  *)
(* the code works on characters (digits, ":", "\n", " ") and a whole word  *)
(* where it only compares or copies.  Python ints are naturals; a value    *)
(* that may be an int or a str is tagged ([int |-> n] or [str |-> s]).     *)
(***************************************************************************)
EXTENDS Integers, Sequences, FiniteSets, TLC

\* ------------------------------------------------------------------ bounds
\* largest number of lines of an index file
MaxLines == 2
\* largest number of download_field calls made on the Reader
MaxCalls == 2
\* largest reading of the clock, in ns
MaxClock == 3

\* ------------------------------------------------------ python primitives
Digits == <<"0", "1", "2", "3", "4", "5", "6", "7", "8", "9">>

RECURSIVE StrOfInt(_)
\* str(n) for an int n >= 0: its decimal digits, one atom each
StrOfInt(n) ==
    IF n < 10 THEN <<Digits[n + 1]>>
    ELSE StrOfInt(n \div 10) \o <<Digits[(n % 10) + 1]>>

\* s.startswith(p) for two strings
IsPrefix(p, s) == Len(p) <= Len(s) /\ SubSeq(s, 1, Len(p)) = p

RECURSIVE SplitFrom(_, _, _, _)
\* s.split(sep): the pieces of s between the occurrences of the atom sep;
\* the piece being read starts at position start, i is the position read
SplitFrom(s, sep, start, i) ==
    IF i > Len(s) THEN <<SubSeq(s, start, Len(s))>>
    ELSE IF s[i] = sep
         THEN <<SubSeq(s, start, i - 1)>> \o SplitFrom(s, sep, i + 1, i + 1)
         ELSE SplitFrom(s, sep, start, i + 1)

Split(s, sep) == SplitFrom(s, sep, 1, 1)

RECURSIVE ReadLinesFrom(_, _, _)
\* f.readlines(): the lines of the text, each keeping its "\n"; a last line
\* without "\n" is returned as it is
ReadLinesFrom(text, start, i) ==
    IF i > Len(text)
    THEN (IF start > Len(text) THEN <<>> ELSE <<SubSeq(text, start, Len(text))>>)
    ELSE IF text[i] = "\n"
         THEN <<SubSeq(text, start, i)>> \o ReadLinesFrom(text, i + 1, i + 1)
         ELSE ReadLinesFrom(text, start, i + 1)

ReadLines(text) == ReadLinesFrom(text, 1, 1)

\* s[0:n] of a python list
Slice0(s, n) == SubSeq(s, 1, IF Len(s) < n THEN Len(s) ELSE n)

\* tuple(s) for a str s: one element per character of s
TupleOfStr(s) == [i \in 1..Len(s) |-> <<s[i]>>]

\* --------------------------------------------------------- product catalog
\* PRODUCTS['NBM']['field_lookup']: abbrevName, and level / lengthOfTimeRange
\* where the entry defines them (the other keys are never read)
field_lookup ==
    [ RAIN1HR     |-> [abbrevName |-> "APCP",   lengthOfTimeRange |-> 1],
      RAIN6HR     |-> [abbrevName |-> "APCP",   lengthOfTimeRange |-> 6],
      ICE1HR      |-> [abbrevName |-> "FICEAC", lengthOfTimeRange |-> 1],
      SNOW1HR     |-> [abbrevName |-> "ASNOW",  lengthOfTimeRange |-> 1],
      TEMP        |-> [abbrevName |-> "TMP",    level |-> 2],
      APPTEMP     |-> [abbrevName |-> "APTMP",  level |-> 2],
      RH          |-> [abbrevName |-> "RH",     level |-> 2],
      DEWPOINT    |-> [abbrevName |-> "DPT",    level |-> 2],
      WINDSPEED   |-> [abbrevName |-> "WIND",   level |-> 10],
      WINDGUST    |-> [abbrevName |-> "GUST",   level |-> 10],
      CEILING     |-> [abbrevName |-> "CEIL"],
      VISIBILITY  |-> [abbrevName |-> "VIS"],
      MAXREF      |-> [abbrevName |-> "MAXREF", level |-> 1000],
      VIL         |-> [abbrevName |-> "VIL"],
      ECHOTOP     |-> [abbrevName |-> "RETOP"],
      WAVEHEIGHT  |-> [abbrevName |-> "HTSGW"],
      PROBTHDR1HR |-> [abbrevName |-> "TSTM",   lengthOfTimeRange |-> 1],
      PROBTHDR3HR |-> [abbrevName |-> "TSTM",   lengthOfTimeRange |-> 3],
      PROBTHDR6HR |-> [abbrevName |-> "TSTM",   lengthOfTimeRange |-> 6] ]

Fields == DOMAIN field_lookup

HasLevel(f) == "level" \in DOMAIN field_lookup[f]
HasTimeRange(f) == "lengthOfTimeRange" \in DOMAIN field_lookup[f]

\* ----------------------------------------------------------- field matcher
\* level.startswith(target) / time_length.startswith(target): str.startswith
\* raises TypeError unless its argument is a str
StartsWith(s, target) ==
    IF "int" \in DOMAIN target THEN "TypeError"
    ELSE IF IsPrefix(target.str, s) THEN "True" ELSE "False"

\* the field's level and time range "with null safety": the int of the
\* catalog when the entry defines it, '' otherwise
target_level(f) ==
    IF HasLevel(f) THEN [int |-> field_lookup[f].level] ELSE [str |-> <<>>]

target_time_length(f) ==
    IF HasTimeRange(f) THEN [int |-> field_lookup[f].lengthOfTimeRange]
    ELSE [str |-> <<>>]

\* a matcher that forgets the statistical-processing column
IsLineMatchingNoMath(index_line, field) ==
    LET cols == Slice0(Split(index_line, ":"), 7) IN
    IF field \notin Fields THEN "KeyError"
    ELSE IF Len(cols) < 7 THEN "ValueError"
    ELSE LET lv == StartsWith(cols[5], target_level(field))
             tm == StartsWith(cols[6], target_time_length(field))
         IN IF <<field_lookup[field].abbrevName>> # cols[4] THEN "False"
            ELSE IF lv # "True" THEN lv
            ELSE tm

\* Reader._is_line_matching_field(index_line, field): "True", "False", or the
\* exception it raises.  Looking up a field the catalog lacks raises KeyError,
\* unpacking fewer than 7 columns raises ValueError;
\* the conjuncts of the returned `and` are evaluated left to right.
_is_line_matching_field(index_line, field) ==
    LET cols == Slice0(Split(index_line, ":"), 7) IN
    IF field \notin Fields THEN "KeyError"
    ELSE IF Len(cols) < 7 THEN "ValueError"
    ELSE LET var_name    == cols[4]
             level       == cols[5]
             time_length == cols[6]
             math_params == cols[7]
             lv == StartsWith(level, target_level(field))
             tm == StartsWith(time_length, target_time_length(field))
         IN IF <<field_lookup[field].abbrevName>> # var_name THEN "False"
            ELSE IF lv # "True" THEN lv
            ELSE IF tm # "True" THEN tm
            ELSE IF math_params = <<>> THEN "True" ELSE "False"

\* python values a call produces: None, a raised exception, a tuple; a
\* tuple built in the loop below records the 1-based line n it was built at
None == [kind |-> "None"]
Raise(exc) == [kind |-> "raise", exc |-> exc]
Tuple(items, n) == [kind |-> "tuple", items |-> items, n |-> n]

RECURSIVE ByterangeFrom(_, _, _)
\* the loop of Reader._get_byterange_from_index over file_lines from line n
\* (1-based) on: the first matching line decides; reading column 2 of a
\* next line that has no ":" raises IndexError, and tuple() of two arguments
\* raises TypeError
ByterangeFrom(file_lines, field, n) ==
    IF n > Len(file_lines) THEN None
    ELSE LET m == _is_line_matching_field(file_lines[n], field) IN
         IF m \in {"KeyError", "TypeError", "ValueError"} THEN Raise(m)
         ELSE IF m = "True"
              THEN LET starting_byte == Split(file_lines[n], ":")[2] IN
                   IF n + 1 > Len(file_lines)
                   THEN Tuple(TupleOfStr(starting_byte), n)
                   ELSE IF Len(Split(file_lines[n + 1], ":")) < 2
                        THEN Raise("IndexError")
                        ELSE Raise("TypeError")
              ELSE ByterangeFrom(file_lines, field, n + 1)

\* Reader._get_byterange_from_index(filepath, field) on the text of the file
_get_byterange_from_index(text, field) == ByterangeFrom(ReadLines(text), field, 1)

\* ------------------------------------------------------- index file inputs
\* The index files the functions above are applied to.  A line is
\*   num:offset:d=<date>:var:level:time range:statistical processing[:more]
\* Its variable is the field's or another one; the column the field
\* constrains (level or time range, no field constrains both) agrees with
\* the field or does not; a column the field does not constrain takes one
\* value on odd lines and another on even lines.  A blank line has no
\* columns at all.
OtherVar == "OTHER"

LevelColumn(f, agrees, i) ==
    IF HasLevel(f)
    THEN (IF agrees THEN StrOfInt(field_lookup[f].level) \o <<" ", "m above ground">>
          ELSE <<"surface">>)
    ELSE (IF i % 2 = 1 THEN <<"surface">> ELSE <<"2", " ", "m above ground">>)

TimeColumn(f, agrees, i) ==
    IF HasTimeRange(f)
    THEN (IF agrees
          THEN StrOfInt(field_lookup[f].lengthOfTimeRange) \o <<" ", "hour fcst">>
          ELSE <<"anl">>)
    ELSE (IF i % 2 = 1 THEN <<"1", " ", "hour fcst">> ELSE <<"anl">>)

\* what follows the 6th ":": nothing, a statistical-processing column, or an
\* empty statistical-processing column followed by one more column
LineTails == { <<>>, <<"ens std dev">>, <<":", "prob fcst">> }

BlankLine == [var |-> "", agrees |-> FALSE, tail |-> <<>>]

LineChoices(f) ==
    { [var |-> var, agrees |-> agrees, tail |-> tail] :
        var \in {field_lookup[f].abbrevName, OtherVar},
        agrees \in (IF HasLevel(f) \/ HasTimeRange(f) THEN BOOLEAN ELSE {TRUE}),
        tail \in LineTails }
    \cup { BlankLine }

\* starting byte offsets by line: increasing (one digit on line 1, several
\* from line 2 on), decreasing from 76, or the same two-digit offset on
\* every line
OffsetAt(pattern, i) ==
    IF pattern = "increasing" THEN 19 * i - 12
    ELSE IF pattern = "decreasing" THEN 95 - 19 * i
    ELSE 38

IndexLine(f, choice, pattern, i) ==
    IF choice = BlankLine THEN <<>>
    ELSE StrOfInt(i) \o <<":">> \o StrOfInt(OffsetAt(pattern, i))
         \o <<":", "d=2024090512", ":", choice.var, ":">>
         \o LevelColumn(f, choice.agrees, i) \o <<":">>
         \o TimeColumn(f, choice.agrees, i) \o <<":">> \o choice.tail

RECURSIVE IndexText(_, _, _, _, _)
\* the text of the file: every line ends with "\n", the last one only if
\* the file ends with a newline
IndexText(f, choices, pattern, final_newline, i) ==
    IF i > Len(choices) THEN <<>>
    ELSE IndexLine(f, choices[i], pattern, i)
         \o (IF i < Len(choices) \/ final_newline THEN <<"\n">> ELSE <<>>)
         \o IndexText(f, choices, pattern, final_newline, i + 1)

\* the index files of up to MaxLines lines, as line choices
IndexChoices(f) == UNION { [1..n -> LineChoices(f)] : n \in 0..MaxLines }

\* ------------------------------------------------------------------- state
VARIABLES
    q_field,    \* the field asked of the index file
    q_text,     \* the text of the index file
    q_lines,    \* its lines as read, once the functions have been applied
    q_match,    \* _is_line_matching_field of every line
    q_range,    \* _get_byterange_from_index of the file
    variant,    \* the script: "partial" (download_partial_grib.py) or "lab"
    reader,     \* the Reader object: _product_name, _region, _file_ext and
                \* its PathBuilder's file_ext
    ctl,        \* the last Reader(...) or set_region(...) call and its result
    indexText,  \* the text of the index object of the product
    files,      \* the local paths that exist, completely written
    partials,   \* the local paths that exist with part of their content only
    pc,         \* per caller: where its download_field call stands
    cur,        \* per caller: the local variables of its call
    cps,        \* per caller: the aws_cp invocations of its call, in order
    hist,       \* the download_field calls that have ended, in order
    ncalls,     \* number of download_field calls made
    args,       \* the command line main() was run with, if it was
    timer,      \* a ThreadTimer object: _start, _end, _status
    tlog        \* the clock, and the last call made on the timer with its result

qvars == <<q_field, q_text, q_lines, q_match, q_range>>
rvars == <<variant, reader, ctl, indexText, files, partials, pc, cur, cps, hist, ncalls>>
mvars == <<args, timer, tlog>>

vars == <<qvars, rvars, mvars>>

NotApplied == [kind |-> "not applied"]

\* ------------------------------------------------------------- the Reader
PRODUCTS == {"NBM"}
\* PRODUCTS['NBM']['file_ext'] and ['regions'] (grib_downloading_lab.py)
product_file_ext == <<".grib2">>
regions == {"CO", "HI", "PR", "GU", "AK"}

\* str.lower() on the region codes used
Lower == [CO |-> "co", HI |-> "hi", PR |-> "pr", GU |-> "gu", AK |-> "ak", ZZ |-> "zz"]

\* arguments the callers pass
ProductArgs == {"NBM", "HRRR"}
RegionArgs == {"CO", "HI", "ZZ"}
FieldArgs == {"VISIBILITY", "RAIN1HR", "WINDDIR"}
\* issue_dt 2024-09-05T12:00:00Z, valid_dt 2024-09-05T13:00:00Z
issue_compact == "20240905T120000Z"
valid_compact == "20240905T130000Z"
dest_dir == "."

Threads == {1, 2}

\* no ThreadTimer has been made
NoTimer == [_start |-> 0, _end |-> 0, _status |-> ""]
NoLog == [now |-> 0, op |-> "", result |-> [kind |-> "none"], last_ok |-> ""]

\* main() has not been run
NoArgs == [product |-> "", region |-> "", fields |-> ""]

NoPath == <<>>
NoReader ==
    [made |-> FALSE, product_name |-> "", region |-> "",
     file_ext |-> <<>>, pb_file_ext |-> <<>>]

Return(value) == [kind |-> "return", value |-> value]
\* RuntimeError(f'Cannot find field {field} in index file at {index_filepath}')
NotFound(field, index_filepath) ==
    [kind |-> "raise", exc |-> "RuntimeError", field |-> field, path |-> index_filepath]

\* `not byte_range`
Falsy(byte_range) ==
    \/ byte_range.kind = "None"
    \/ (byte_range.kind = "tuple" /\ byte_range.items = <<>>)

\* a set_region that leaves the PathBuilder alone
SetRegionNoBuilder(v, rd, region) ==
    [result |-> "ok",
     reader |-> [rd EXCEPT !.region = region,
                           !.file_ext = <<".", region>> \o product_file_ext]]

\* Reader.set_region(region) on the Reader rd: the exception raised or "ok",
\* and the Reader afterwards.  Only grib_downloading_lab.py checks the region
\* (and lower-cases it, and updates the PathBuilder).
set_region(v, rd, region) ==
    IF v = "partial"
    THEN [result |-> "ok",
          reader |-> [rd EXCEPT !.region = region,
                                !.file_ext = <<".", region>> \o product_file_ext]]
    ELSE IF region \notin regions
         THEN [result |-> "ValueError", reader |-> rd]
         ELSE [result |-> "ok",
               reader |-> [rd EXCEPT
                   !.region = Lower[region],
                   !.file_ext = <<".", Lower[region]>> \o product_file_ext,
                   !.pb_file_ext = <<".", Lower[region]>> \o product_file_ext]]

\* Reader._get_dest_filepath (partial) / Reader.get_local_filename (lab);
\* field "" stands for no field
LocalFilename(v, rd, field) ==
    <<rd.product_name, "_", issue_compact, "_", valid_compact>>
    \o (IF field # "" THEN <<"_", field>> ELSE <<>>)
    \o (IF v = "partial" THEN <<".", rd.region>> \o rd.file_ext ELSE rd.file_ext)

\* PathBuilder.build_path(issue, valid) with the templates of PRODUCTS['NBM']
build_path(rd) ==
    <<"s3://noaa-nbm-grib2-pds", "/", "blend.20240905/12/core/", "blend.t12z.core.f001">>
    \o rd.pb_file_ext

\* os.path.join(dest_dir, filename)
join(dir, filename) == <<dir, "/">> \o filename

\* a field check that lets every field through
FieldAlwaysRecognized(field) == TRUE
\* field in self._product['field_lookup']
FieldRecognized(field) == field \in Fields

\* an existence check that never finds the file
NeverExists(dest, fs) == FALSE
\* os.path.exists(dest)
Exists(dest, fs) == dest \in fs

\* a file check that finds every path
AlwaysFile(path, fs) == TRUE
\* os.path.isfile(path)
IsFile(path, fs) == path \in fs

IdleCur ==
    [field |-> "", reader_before |-> NoReader,
     original_config_ext |-> <<>>, original_path_builder_ext |-> <<>>,
     index_path |-> NoPath, index_file_path |-> NoPath, index_filepath |-> NoPath,
     src |-> NoPath, dest |-> NoPath, byte_range |-> None,
     file_lines |-> <<>>, exc |-> "", fs_access |-> 0]

\* index objects the Reader is run against: one line carrying the variable
\* of a field, with a column that disagrees with the field if it constrains
\* one, with and without a final newline, at offset 38 or 76
ReaderIndexFiles ==
    { IndexText(f, <<[var |-> field_lookup[f].abbrevName, agrees |-> FALSE, tail |-> <<>>]>>,
                pattern, final_newline, 1) :
        f \in FieldArgs \cap Fields, final_newline \in BOOLEAN,
        pattern \in {"flat", "decreasing"} }

Init ==
    /\ q_field = "VISIBILITY" /\ q_text = <<>> /\ q_lines = <<>>
    /\ q_match = <<>> /\ q_range = NotApplied
    /\ variant \in {"partial", "lab"}
    /\ reader = NoReader
    /\ ctl = [op |-> "", product |-> "", region |-> "", result |-> ""]
    /\ indexText \in ReaderIndexFiles
    /\ files = {}
    /\ partials = {}
    /\ pc = [t \in Threads |-> "idle"]
    /\ cur = [t \in Threads |-> IdleCur]
    /\ cps = [t \in Threads |-> <<>>]
    /\ hist = <<>>
    /\ ncalls = 0
    /\ args = NoArgs
    /\ timer = NoTimer /\ tlog = NoLog

AllIdle == \A t \in Threads : pc[t] = "idle"

\* the paths the file system reports as existing: os.path.exists and
\* os.path.isfile do not tell a file being written from a complete one
OnDisk == files \cup partials

\* Reader(product, region)
Construct(product, region) ==
    /\ ~reader.made /\ AllIdle
    /\ LET fresh == [made |-> TRUE, product_name |-> product, region |-> "",
                     file_ext |-> product_file_ext, pb_file_ext |-> product_file_ext]
           sr == set_region(variant, fresh, region)
       IN IF product \notin PRODUCTS
          THEN /\ reader' = reader
               /\ ctl' = [op |-> "Reader", product |-> product, region |-> region,
                          result |-> IF variant = "partial" THEN "RuntimeError"
                                     ELSE "ValueError"]
          ELSE /\ reader' = IF sr.result = "ok" THEN sr.reader ELSE reader
               /\ ctl' = [op |-> "Reader", product |-> product, region |-> region,
                          result |-> sr.result]
    /\ hist' = <<>>
    /\ UNCHANGED <<qvars, mvars, variant, indexText, files, partials, pc, cur, cps, ncalls>>

\* reader.set_region(region), between download_field calls
SetRegion(region) ==
    /\ reader.made /\ AllIdle
    /\ LET sr == set_region(variant, reader, region) IN
         /\ reader' = sr.reader
         /\ ctl' = [op |-> "set_region", product |-> reader.product_name,
                    region |-> region, result |-> sr.result]
    /\ hist' = <<>>
    /\ UNCHANGED <<qvars, mvars, variant, indexText, files, partials, pc, cur, cps, ncalls>>

\* the end of caller t's download_field call, returning or raising r
EndCall(t, r, c, rd_after, files_after, cps_final) ==
    /\ pc' = [pc EXCEPT ![t] = "idle"]
    /\ cur' = [cur EXCEPT ![t] = IdleCur]
    /\ cps' = [cps EXCEPT ![t] = <<>>]
    /\ hist' = Append(hist,
          [thread |-> t, field |-> c.field, ret |-> r, cps |-> cps_final,
           fs_access |-> c.fs_access,
           reader_before |-> c.reader_before, reader_after |-> rd_after,
           index_path |-> c.index_path, index_filepath |-> c.index_filepath,
           index_present |-> c.index_path \in files_after,
           dest_present |-> IF r.kind = "return" THEN r.value \in files_after
                            ELSE FALSE])

\* download_field(issue_dt, valid_dt, field, dest_dir): the field check
DownloadField(t, field) ==
    /\ pc[t] = "idle" /\ reader.made /\ ncalls < MaxCalls
    /\ ncalls' = ncalls + 1
    /\ LET c == [IdleCur EXCEPT !.field = field, !.reader_before = reader] IN
       IF ~FieldRecognized(field)
       THEN EndCall(t, Raise("ValueError"), c, reader, files, <<>>)
       ELSE /\ pc' = [pc EXCEPT ![t] = "dif"]
            /\ cur' = [cur EXCEPT ![t] = c]
            /\ UNCHANGED <<cps, hist>>
    /\ UNCHANGED <<qvars, mvars, variant, reader, ctl, indexText, files, partials>>

\* an append that appends nothing
AppendNothing(ext) == ext
\* self._file_ext += '.idx' / self._path_builder.file_ext += '.idx'
AppendIdx(ext) == ext \o <<".idx">>

\* _download_index_file up to its call of _download_file: both extensions
\* get '.idx' appended, the index paths are built; download_partial_grib.py
\* returns here, without resetting the extensions, if the local file exists
DIF_Enter(t) ==
    /\ pc[t] = "dif"
    /\ LET rd == [reader EXCEPT !.file_ext = AppendIdx(@),
                                !.pb_file_ext = AppendIdx(@)]
           dest_path == join(dest_dir, LocalFilename(variant, rd, ""))
           src_path == build_path(rd)
           early == variant = "partial" /\ Exists(dest_path, OnDisk)
       IN /\ reader' = rd
          /\ cur' = [cur EXCEPT ![t] =
                 [@ EXCEPT !.original_config_ext = reader.file_ext,
                           !.original_path_builder_ext = reader.pb_file_ext,
                           !.index_path = dest_path,
                           !.src = src_path, !.dest = dest_path,
                           !.byte_range = None,
                           !.index_filepath = IF early THEN dest_path ELSE @,
                           !.fs_access = IF variant = "partial" THEN @ + 1 ELSE @]]
          /\ pc' = [pc EXCEPT ![t] = IF early THEN "resolve" ELSE "dif_download"]
    /\ UNCHANGED <<qvars, mvars, variant, ctl, indexText, files, partials, cps, hist, ncalls>>

\* the s5cmd command line aws_cp(path, dest, byte_range) builds, one string
\* per argument.  download_partial_grib.py appends the range of a truthy
\* byte_range as '--metadata bytes={start}-{end}' (end '' for a tuple of
\* fewer than 2 elements); download_utils.py, used by grib_downloading_lab.py,
\* has that code commented out
aws_cp_commands(v, path, dest, byte_range) ==
    IF v = "partial"
    THEN <<<<"s5cmd">>, <<"--no-sign-request">>, <<"cp">>, path, dest>>
         \o (IF Falsy(byte_range) THEN <<>>
             ELSE LET range_start == byte_range.items[1]
                      range_end == IF Len(byte_range.items) < 2 THEN <<>>
                                   ELSE byte_range.items[2]
                  IN <<<<"--metadata">>,
                       <<"bytes=">> \o range_start \o <<"-">> \o range_end>>)
    ELSE <<<<"s5cmd">>, <<"--no-sign-request">>, <<"cp">>>> \o <<path, dest>>

\* _download_file(src, dest, byte_range) up to its call of aws_cp
DownloadFile(t) ==
    /\ pc[t] \in {"dif_download", "data_download"}
    /\ LET c == [cur[t] EXCEPT !.fs_access = @ + 1] IN
       IF Exists(c.dest, OnDisk)
       THEN IF pc[t] = "dif_download"
            THEN /\ pc' = [pc EXCEPT ![t] = "dif_finally"]
                 /\ cur' = [cur EXCEPT ![t] = [c EXCEPT !.index_file_path = c.dest]]
                 /\ UNCHANGED <<cps, hist>>
            ELSE EndCall(t, Return(c.dest), c, reader, files, cps[t])
       ELSE /\ pc' = [pc EXCEPT ![t] = IF pc[t] = "dif_download" THEN "dif_cp"
                                       ELSE "data_cp"]
            /\ cur' = [cur EXCEPT ![t] = c]
            /\ cps' = [cps EXCEPT ![t] = Append(@,
                   [kind |-> IF pc[t] = "dif_download" THEN "index" ELSE "data",
                    src |-> c.src, dest |-> c.dest, byte_range |-> c.byte_range,
                    commands |-> aws_cp_commands(variant, c.src, c.dest, c.byte_range),
                    result |-> "pending"])]
            /\ UNCHANGED hist
    /\ UNCHANGED <<qvars, mvars, variant, reader, ctl, indexText, files, partials, ncalls>>

\* what exec_cmd(['s5cmd', ...]) does inside aws_cp: the copy succeeds
\* (aws_cp returns True), s5cmd is missing (FileNotFoundError, caught:
\* aws_cp returns False), or it raises something else, which aws_cp lets out
CpOutcomes == {"True", "False", "RuntimeError"}

\* caller t's aws_cp is running and s5cmd has begun to write its destination
Writing(t) ==
    /\ pc[t] \in {"dif_cp", "data_cp"}
    /\ cps[t][Len(cps[t])].result = "writing"

\* s5cmd, given the destination path itself by aws_cp, begins to write it:
\* the path exists from now on, with part of its content
CpWrite(t) ==
    /\ pc[t] \in {"dif_cp", "data_cp"}
    /\ cps[t][Len(cps[t])].result = "pending"
    /\ cps' = [cps EXCEPT ![t] = [@ EXCEPT ![Len(@)].result = "writing"]]
    /\ partials' = partials \cup {cur[t].dest}
    /\ files' = files \ {cur[t].dest}
    /\ UNCHANGED <<qvars, mvars, variant, reader, ctl, indexText, pc, cur, hist, ncalls>>

\* aws_cp(src, dest, byte_range) and the return of _download_file, which
\* ignores what aws_cp returned.  A missing s5cmd writes nothing; a copy
\* that raises leaves what it has written; a copy that succeeds leaves the
\* whole file unless another copy is still writing the same path
AwsCp(t, outcome) ==
    /\ pc[t] \in {"dif_cp", "data_cp"}
    /\ outcome = "False" => ~Writing(t)
    /\ LET c == cur[t]
           done == [cps[t] EXCEPT ![Len(cps[t])].result = outcome]
           shared == \E u \in Threads \ {t} : Writing(u) /\ cur[u].dest = c.dest
           whole == outcome = "True" /\ ~shared
           fs == IF whole THEN files \cup {c.dest} ELSE files
       IN /\ files' = fs
          /\ partials' = IF whole THEN partials \ {c.dest} ELSE partials
          /\ IF pc[t] = "dif_cp"
             THEN /\ pc' = [pc EXCEPT ![t] = "dif_finally"]
                  /\ cur' = [cur EXCEPT ![t] =
                         IF outcome = "RuntimeError" THEN [c EXCEPT !.exc = outcome]
                         ELSE [c EXCEPT !.index_file_path = c.dest]]
                  /\ cps' = [cps EXCEPT ![t] = done]
                  /\ UNCHANGED hist
             ELSE EndCall(t, IF outcome = "RuntimeError" THEN Raise(outcome)
                             ELSE Return(c.dest),
                          c, reader, fs, done)
    /\ UNCHANGED <<qvars, mvars, variant, reader, ctl, indexText, ncalls>>

\* the finally block of _download_index_file and its return:
\* index_file_path if os.path.isfile(index_file_path) else None
DIF_Finally(t) ==
    /\ pc[t] = "dif_finally"
    /\ LET c == cur[t]
           rd == [reader EXCEPT !.file_ext = c.original_config_ext,
                                !.pb_file_ext = c.original_path_builder_ext]
       IN /\ reader' = rd
          /\ IF c.exc # ""
             THEN EndCall(t, Raise(c.exc), c, rd, files, cps[t])
             ELSE /\ pc' = [pc EXCEPT ![t] = "resolve"]
                  /\ cur' = [cur EXCEPT ![t] =
                         [c EXCEPT !.fs_access = @ + 1,
                                   !.index_filepath =
                                       IF IsFile(c.index_file_path, OnDisk)
                                       THEN c.index_file_path ELSE NoPath]]
                  /\ UNCHANGED <<cps, hist>>
    /\ UNCHANGED <<qvars, mvars, variant, ctl, indexText, files, partials, ncalls>>

\* what open(path).readlines() can get of the index file: the text of the
\* index object, or the part of it written so far if the file is partial
TextsRead(path) ==
    IF path \in partials
    THEN { SubSeq(indexText, 1, k) : k \in 0..Len(indexText) }
    ELSE { indexText }

\* download_field from _get_byterange_from_index(index_filepath, field) to
\* the data paths: open(None) raises TypeError; an exception of the index
\* functions ends the call; `not byte_range` raises the not-found error
Resolve(t) ==
    /\ pc[t] = "resolve"
    /\ \E text \in TextsRead(cur[t].index_filepath) :
       LET c == [cur[t] EXCEPT !.fs_access = @ + 1]
           byte_range == _get_byterange_from_index(text, c.field)
       IN IF c.index_filepath = NoPath
          THEN EndCall(t, Raise("TypeError"), cur[t], reader, files, cps[t])
          ELSE IF byte_range.kind = "raise"
          THEN EndCall(t, byte_range, c, reader, files, cps[t])
          ELSE IF Falsy(byte_range)
          THEN EndCall(t, NotFound(c.field, c.index_filepath), c, reader, files, cps[t])
          ELSE /\ pc' = [pc EXCEPT ![t] = "data_download"]
               /\ cur' = [cur EXCEPT ![t] =
                      [c EXCEPT !.src = build_path(reader),
                                !.dest = join(dest_dir,
                                              LocalFilename(variant, reader, c.field)),
                                !.byte_range = byte_range,
                                !.file_lines = ReadLines(text)]]
               /\ UNCHANGED <<cps, hist>>
    /\ UNCHANGED <<qvars, mvars, variant, reader, ctl, indexText, files, partials, ncalls>>

Step(t) ==
    \/ \E field \in FieldArgs : DownloadField(t, field)
    \/ DIF_Enter(t)
    \/ DownloadFile(t)
    \/ CpWrite(t)
    \/ \E outcome \in CpOutcomes : AwsCp(t, outcome)
    \/ DIF_Finally(t)
    \/ Resolve(t)

\* one caller at a time
Next ==
    \/ \E product \in ProductArgs, region \in RegionArgs : Construct(product, region)
    \/ \E region \in RegionArgs : SetRegion(region)
    \/ Step(1)

Spec == Init /\ [][Next]_vars

\* ------------------------- the public operations of grib_downloading_lab
\* the region argument of get_local_filename / get_source_path: a region
\* code, or "" for None
OptionalRegionArgs == RegionArgs \cup {""}

\* `if region and region != self._region: self.set_region(region)`, the
\* first statement of get_local_filename and of get_source_path
OverwriteRegion(rd, region) ==
    IF region # "" /\ region # rd.region
    THEN set_region("lab", rd, region)
    ELSE [result |-> "ok", reader |-> rd]

\* reader.get_local_filename(issue, valid, region): returns
\* LocalFilename("lab", reader', field) unless set_region raised
GetLocalFilename(region) ==
    /\ variant = "lab" /\ reader.made /\ AllIdle
    /\ LET sr == OverwriteRegion(reader, region) IN
         /\ reader' = sr.reader
         /\ ctl' = [op |-> "get_local_filename", product |-> reader.product_name,
                    region |-> region, result |-> sr.result]
    /\ hist' = <<>>
    /\ UNCHANGED <<qvars, mvars, variant, indexText, files, partials, pc, cur, cps, ncalls>>

\* reader.get_source_path(issue, valid, region): returns build_path(reader')
\* unless set_region raised
GetSourcePath(region) ==
    /\ variant = "lab" /\ reader.made /\ AllIdle
    /\ LET sr == OverwriteRegion(reader, region) IN
         /\ reader' = sr.reader
         /\ ctl' = [op |-> "get_source_path", product |-> reader.product_name,
                    region |-> region, result |-> sr.result]
    /\ hist' = <<>>
    /\ UNCHANGED <<qvars, mvars, variant, indexText, files, partials, pc, cur, cps, ncalls>>

InitLab == Init /\ variant = "lab"

NextLab ==
    \/ \E product \in ProductArgs, region \in RegionArgs : Construct(product, region)
    \/ \E region \in RegionArgs : SetRegion(region)
    \/ \E region \in OptionalRegionArgs : GetLocalFilename(region)
    \/ \E region \in OptionalRegionArgs : GetSourcePath(region)
    \/ Step(1)

SpecLab == InitLab /\ [][NextLab]_vars

\* ------------------------------------- main() of download_partial_grib.py
\* the characters of the strings given as --fields
StrChars ==
    [
      RAIN1HR     |-> <<"R", "A", "I", "N", "1", "H", "R">>,
      RAIN6HR     |-> <<"R", "A", "I", "N", "6", "H", "R">>,
      ICE1HR      |-> <<"I", "C", "E", "1", "H", "R">>,
      SNOW1HR     |-> <<"S", "N", "O", "W", "1", "H", "R">>,
      TEMP        |-> <<"T", "E", "M", "P">>,
      APPTEMP     |-> <<"A", "P", "P", "T", "E", "M", "P">>,
      RH          |-> <<"R", "H">>,
      DEWPOINT    |-> <<"D", "E", "W", "P", "O", "I", "N", "T">>,
      WINDSPEED   |-> <<"W", "I", "N", "D", "S", "P", "E", "E", "D">>,
      WINDGUST    |-> <<"W", "I", "N", "D", "G", "U", "S", "T">>,
      CEILING     |-> <<"C", "E", "I", "L", "I", "N", "G">>,
      VISIBILITY  |-> <<"V", "I", "S", "I", "B", "I", "L", "I", "T", "Y">>,
      MAXREF      |-> <<"M", "A", "X", "R", "E", "F">>,
      VIL         |-> <<"V", "I", "L">>,
      ECHOTOP     |-> <<"E", "C", "H", "O", "T", "O", "P">>,
      WAVEHEIGHT  |-> <<"W", "A", "V", "E", "H", "E", "I", "G", "H", "T">>,
      PROBTHDR1HR |-> <<"P", "R", "O", "B", "T", "H", "D", "R", "1", "H", "R">>,
      PROBTHDR3HR |-> <<"P", "R", "O", "B", "T", "H", "D", "R", "3", "H", "R">>,
      PROBTHDR6HR |-> <<"P", "R", "O", "B", "T", "H", "D", "R", "6", "H", "R">> ]

\* `for field in target_fields`, target_fields being the str of --fields:
\* iterating a str yields its characters, each a str of length 1
Iterate(target_fields) == StrChars[target_fields]

\* --region defaults to 'CONUS'; a region given must be one of
\* choices=PRODUCTS.keys()
MainRegionArgs == {"CONUS", "NBM"}

InitMain ==
    /\ q_field = "VISIBILITY" /\ q_text = <<>> /\ q_lines = <<>>
    /\ q_match = <<>> /\ q_range = NotApplied
    /\ variant = "partial"
    /\ reader = NoReader
    /\ ctl = [op |-> "", product |-> "", region |-> "", result |-> ""]
    /\ indexText \in ReaderIndexFiles
    /\ files = {}
    /\ partials = {}
    /\ pc = [t \in Threads |-> "idle"]
    /\ cur = [t \in Threads |-> IdleCur]
    /\ cps = [t \in Threads |-> <<>>]
    /\ hist = <<>>
    /\ ncalls = 0
    /\ args \in [product : ProductArgs, region : MainRegionArgs, fields : Fields]
    /\ timer = NoTimer /\ tlog = NoLog

\* reader = Reader(args.product, args.region)
MainReader ==
    /\ ctl.op = ""
    /\ Construct(args.product, args.region)

\* one iteration of `for field in target_fields`: the next item goes to
\* reader.download_field; an exception of an earlier iteration has ended main
MainLoop ==
    /\ reader.made /\ pc[1] = "idle"
    /\ IF hist = <<>> THEN TRUE ELSE hist[Len(hist)].ret.kind = "return"
    /\ Len(hist) < Len(Iterate(args.fields))
    /\ DownloadField(1, Iterate(args.fields)[Len(hist) + 1])

NextMain == MainReader \/ MainLoop

SpecMain == InitMain /\ [][NextMain]_vars

\* ------------------------------------------ two callers of the same Reader
\* Reader('NBM', 'CO') has been constructed and is shared by the callers
InitConcurrent ==
    /\ q_field = "VISIBILITY" /\ q_text = <<>> /\ q_lines = <<>>
    /\ q_match = <<>> /\ q_range = NotApplied
    /\ variant \in {"partial", "lab"}
    /\ reader = set_region(variant,
                           [made |-> TRUE, product_name |-> "NBM", region |-> "",
                            file_ext |-> product_file_ext,
                            pb_file_ext |-> product_file_ext],
                           "CO").reader
    /\ ctl = [op |-> "Reader", product |-> "NBM", region |-> "CO", result |-> "ok"]
    /\ indexText \in ReaderIndexFiles
    /\ files = {}
    /\ partials = {}
    /\ pc = [t \in Threads |-> "idle"]
    /\ cur = [t \in Threads |-> IdleCur]
    /\ cps = [t \in Threads |-> <<>>]
    /\ hist = <<>>
    /\ ncalls = 0
    /\ args = NoArgs
    /\ timer = NoTimer /\ tlog = NoLog

\* caller t has not made its download_field call yet
OneCallEach(t) == \A i \in 1..Len(hist) : hist[i].thread # t

\* each caller makes one download_field call; the steps of the two calls
\* interleave in any order
NextConcurrent ==
    \E t \in Threads :
        \/ \E field \in FieldArgs : OneCallEach(t) /\ DownloadField(t, field)
        \/ DIF_Enter(t)
        \/ DownloadFile(t)
        \/ CpWrite(t)
        \/ \E outcome \in CpOutcomes : AwsCp(t, outcome)
        \/ DIF_Finally(t)
        \/ Resolve(t)

SpecConcurrent == InitConcurrent /\ [][NextConcurrent]_vars

\* ------------------------------------------------ src/ThreadTimer.py
\* ThreadTimer.start() on the timer tm at clock reading now: the exception
\* raised or None, and the timer afterwards
start(tm, now) ==
    IF tm._status = "STARTED"
    THEN [result |-> Raise("RuntimeError"), timer |-> tm]
    ELSE [result |-> Return("None"),
          timer |-> [tm EXCEPT !._start = now, !._status = "STARTED"]]

\* ThreadTimer.stop(): raises if already stopped, else returns _end - _start
stop(tm, now) ==
    IF tm._status = "STOPPED"
    THEN [result |-> Raise("RuntimeError"), timer |-> tm]
    ELSE [result |-> Return(now - tm._start),
          timer |-> [tm EXCEPT !._end = now, !._status = "STOPPED"]]

\* the units get_result is asked for, one of them unsupported
TimeUnits == {"s", "ms", "ns", "h"}

\* ns per unit for the supported units
NsPerUnit == [s |-> 1000000000, ms |-> 1000000, ns |-> 1]

\* f'{elapsed_in_units:0.2f}', as hundredths of the unit, rounded to nearest;
\* elapsed_in_units stays -1 for an unsupported unit
Hundredths(elapsed_ns, time_units) ==
    IF time_units \in DOMAIN NsPerUnit
    THEN (elapsed_ns * 200 + NsPerUnit[time_units]) \div (2 * NsPerUnit[time_units])
    ELSE -100

\* a get_result without its status check
GetResultNeverRaises(tm) == FALSE
\* the status check of get_result
get_result_raises(tm) == tm._status # "STOPPED"

\* ThreadTimer.get_result(time_units=...): RuntimeError unless STOPPED, else
\* the formatted elapsed time; the timer is not assigned to
get_result(tm, time_units) ==
    IF get_result_raises(tm) THEN Raise("RuntimeError")
    ELSE Return([hundredths |-> Hundredths(tm._end - tm._start, time_units),
                 time_units |-> time_units])

\* ThreadTimer(name, auto_start) at some reading of the clock
InitTimer ==
    /\ q_field = "VISIBILITY" /\ q_text = <<>> /\ q_lines = <<>>
    /\ q_match = <<>> /\ q_range = NotApplied
    /\ variant = "lab"
    /\ reader = NoReader
    /\ ctl = [op |-> "", product |-> "", region |-> "", result |-> ""]
    /\ indexText = <<>>
    /\ files = {}
    /\ partials = {}
    /\ pc = [t \in Threads |-> "idle"]
    /\ cur = [t \in Threads |-> IdleCur]
    /\ cps = [t \in Threads |-> <<>>]
    /\ hist = <<>>
    /\ ncalls = 0
    /\ args = NoArgs
    /\ \E now \in 0..MaxClock, auto_start \in BOOLEAN :
          LET fresh == [_start |-> 0, _end |-> 0, _status |-> "NOT_STARTED"] IN
          /\ timer = IF auto_start THEN start(fresh, now).timer ELSE fresh
          /\ tlog = [now |-> now, op |-> "ThreadTimer", result |-> Return("None"),
                     last_ok |-> IF auto_start THEN "start" ELSE ""]

\* time.perf_counter_ns() moves on
TimerTick ==
    /\ tlog.now < MaxClock
    /\ tlog' = [tlog EXCEPT !.now = @ + 1]
    /\ UNCHANGED <<qvars, rvars, args, timer>>

TimerStart ==
    /\ LET r == start(timer, tlog.now) IN
         /\ timer' = r.timer
         /\ tlog' = [tlog EXCEPT !.op = "start", !.result = r.result,
                                 !.last_ok = IF r.result.kind = "return"
                                             THEN "start" ELSE @]
    /\ UNCHANGED <<qvars, rvars, args>>

TimerStop ==
    /\ LET r == stop(timer, tlog.now) IN
         /\ timer' = r.timer
         /\ tlog' = [tlog EXCEPT !.op = "stop", !.result = r.result,
                                 !.last_ok = IF r.result.kind = "return"
                                             THEN "stop" ELSE @]
    /\ UNCHANGED <<qvars, rvars, args>>

TimerGetResult(time_units) ==
    /\ tlog' = [tlog EXCEPT !.op = "get_result",
                            !.result = get_result(timer, time_units)]
    /\ UNCHANGED <<qvars, rvars, args, timer>>

NextTimer ==
    \/ TimerTick
    \/ TimerStart
    \/ TimerStop
    \/ \E time_units \in TimeUnits : TimerGetResult(time_units)

SpecTimer == InitTimer /\ [][NextTimer]_vars

\* --------------------------------------- the index functions on their own
InitIndex ==
    /\ q_field \in Fields
    /\ \E choices \in IndexChoices(q_field), final_newline \in BOOLEAN :
          q_text = IndexText(q_field, choices, "increasing", final_newline, 1)
    /\ q_lines = <<>>
    /\ q_match = <<>>
    /\ q_range = NotApplied
    /\ variant = "lab"
    /\ reader = NoReader
    /\ ctl = [op |-> "", product |-> "", region |-> "", result |-> ""]
    /\ indexText = <<>>
    /\ files = {}
    /\ partials = {}
    /\ pc = [t \in Threads |-> "idle"]
    /\ cur = [t \in Threads |-> IdleCur]
    /\ cps = [t \in Threads |-> <<>>]
    /\ hist = <<>>
    /\ ncalls = 0
    /\ args = NoArgs
    /\ timer = NoTimer /\ tlog = NoLog

ApplyIndexFunctions ==
    /\ q_range = NotApplied
    /\ LET file_lines == ReadLines(q_text) IN
         /\ q_lines' = file_lines
         /\ q_match' = [k \in 1..Len(file_lines) |->
                           _is_line_matching_field(file_lines[k], q_field)]
    /\ q_range' = _get_byterange_from_index(q_text, q_field)
    /\ UNCHANGED <<q_field, q_text, rvars, mvars>>

NextIndex == ApplyIndexFunctions

SpecIndex == InitIndex /\ [][NextIndex]_vars

\* ======================================================= index file claims
Applied == q_range # NotApplied

\* the columns of line k as the code splits it
Cols(k) == Split(q_lines[k], ":")

\* the columns of a line of the index format, without its line terminator
StripNewline(line) ==
    IF line # <<>> /\ line[Len(line)] = "\n" THEN SubSeq(line, 1, Len(line) - 1)
    ELSE line
RecordOf(line) == Split(StripNewline(line), ":")
Record(k) == RecordOf(q_lines[k])

\* line k is the first line the code's matcher accepts
FirstMatching(k) ==
    /\ k \in 1..Len(q_lines)
    /\ q_match[k] = "True"
    /\ \A j \in 1..(k - 1) : q_match[j] = "False"

\* a line satisfies the criteria of field f: same variable, level and time
\* range columns starting with the string form of the field's level and
\* lengthOfTimeRange where it has them, empty statistical-processing column
QualifiesLine(line, f) ==
    /\ Len(RecordOf(line)) >= 7
    /\ RecordOf(line)[4] = <<field_lookup[f].abbrevName>>
    /\ (HasLevel(f) => IsPrefix(StrOfInt(field_lookup[f].level), RecordOf(line)[5]))
    /\ (HasTimeRange(f)
          => IsPrefix(StrOfInt(field_lookup[f].lengthOfTimeRange), RecordOf(line)[6]))
    /\ RecordOf(line)[7] = <<>>

Qualifies(k) == QualifiesLine(q_lines[k], q_field)

\* C2: when line k < N is the first matching line (and line k+1 has an offset
\* column), the range returned is (offset of line k, offset of line k+1).
C2_NonLastRange ==
    Applied =>
        \A k \in 1..(Len(q_lines) - 1) :
            (FirstMatching(k) /\ Len(Cols(k + 1)) >= 2)
                => q_range = Tuple(<<Cols(k)[2], Cols(k + 1)[2]>>, k)

\* C3: when the last line is the first matching line, the range returned has
\* exactly one element, the whole starting byte offset of that line.
C3_LastLineRange ==
    (Applied /\ Len(q_lines) >= 1 /\ FirstMatching(Len(q_lines)))
        => q_range = Tuple(<<Cols(Len(q_lines))[2]>>, Len(q_lines))

\* C4: a newline-terminated line that satisfies the field's criteria is
\* reported as matching, and the first such line is the one selected, without
\* an exception.
C4_PositiveMatch ==
    Applied =>
        \A k \in 1..Len(q_lines) :
            (q_lines[k][Len(q_lines[k])] = "\n" /\ Qualifies(k))
                => /\ q_match[k] = "True"
                   /\ ((\A j \in 1..(k - 1) : ~Qualifies(j))
                          => (q_range.kind = "tuple" /\ q_range.n = k))

\* C5: a line whose statistical-processing column is not empty is never
\* reported as matching and never the line the range is taken from, whatever
\* the field and the other columns.
C5_StatProcNeverSelected ==
    Applied =>
        \A k \in 1..Len(q_lines) :
            (Len(Record(k)) >= 7 /\ Record(k)[7] # <<>>)
                => /\ q_match[k] # "True"
                   /\ ~(q_range.kind = "tuple" /\ q_range.n = k)

\* C5 witness: a line with the field's variable, no criterion left to fail
\* and a statistical-processing column has been judged, and rejected.
C5_Witness ==
    /\ Applied
    /\ ~HasLevel(q_field) /\ ~HasTimeRange(q_field)
    /\ \E k \in 1..Len(q_lines) :
          /\ Len(Record(k)) >= 7
          /\ Record(k)[4] = <<field_lookup[q_field].abbrevName>>
          /\ Record(k)[7] = <<"ens std dev">>
          /\ q_match[k] = "False"

\* ============================================================ Reader claims
\* C1: of two download_field calls in a row for the same field, the first of
\* which returned a path and left the index file and that path present, the
\* second returns the same path and invokes aws_cp zero times.
C1_Idempotent ==
    \A i \in 1..(Len(hist) - 1) :
        (/\ hist[i].field = hist[i + 1].field
         /\ hist[i].ret.kind = "return"
         /\ hist[i].index_present /\ hist[i].dest_present)
            => (hist[i + 1].ret = hist[i].ret /\ hist[i + 1].cps = <<>>)

\* C6: a download_field call for a field the catalog lacks raises ValueError
\* at once: it never gets past the field check, invokes aws_cp zero times,
\* touches no file and leaves the Reader as it was.
C6_UnknownFieldRejected ==
    /\ \A t \in Threads : pc[t] # "idle" => cur[t].field \in Fields
    /\ \A i \in 1..Len(hist) :
          hist[i].field \notin Fields
              => /\ hist[i].ret = Raise("ValueError")
                 /\ hist[i].cps = <<>>
                 /\ hist[i].fs_access = 0
                 /\ hist[i].reader_after = hist[i].reader_before

\* C6 witness: a call for an unknown field has been made and has ended
\* while a local file exists.
C6_Witness ==
    \E i \in 1..Len(hist) :
        hist[i].field \notin Fields /\ hist[i].ret.kind = "raise" /\ files # {}

WellFormed(text) ==
    \A k \in 1..Len(ReadLines(text)) : Len(RecordOf(ReadLines(text)[k])) >= 7

\* C7: a call that got its index file, when every line of the file has 7
\* columns and none satisfies the field's criteria, ends with the not-found
\* error naming the field and the index path, and issues no data copy.
C7_NotFound ==
    \A i \in 1..Len(hist) :
        (/\ hist[i].field \in Fields
         /\ hist[i].index_filepath # NoPath
         /\ WellFormed(indexText)
         /\ \A k \in 1..Len(ReadLines(indexText)) :
               ~QualifiesLine(ReadLines(indexText)[k], hist[i].field))
            => /\ hist[i].ret = NotFound(hist[i].field, hist[i].index_filepath)
               /\ \A j \in 1..Len(hist[i].cps) : hist[i].cps[j].kind # "data"

\* C8: Reader(product, region) and set_region(region) succeed only for a
\* product of PRODUCTS and a region of its supported regions, so the region
\* a Reader holds is always one of them (as given or lower-cased).
C8_RegionValidated ==
    /\ (ctl.result = "ok" => (ctl.product \in PRODUCTS /\ ctl.region \in regions))
    /\ (reader.made => \E r \in regions : reader.region \in {r, Lower[r]})

\* C9: whenever _download_file is entered with a destination that exists, it
\* returns that destination, invokes no aws_cp and leaves the files alone.
C9_CacheHit ==
    [][\A t \in Threads :
          (/\ pc[t] \in {"dif_download", "data_download"}
           /\ cur[t].dest \in files
           /\ pc'[t] # pc[t])
              => /\ files' = files
                 /\ IF pc[t] = "dif_download"
                    THEN /\ pc'[t] = "dif_finally"
                         /\ cur'[t].index_file_path = cur[t].dest
                         /\ cps'[t] = cps[t]
                    ELSE /\ pc'[t] = "idle"
                         /\ Len(hist') = Len(hist) + 1
                         /\ hist'[Len(hist')].ret = Return(cur[t].dest)
                         /\ hist'[Len(hist')].cps = cps[t]]_vars

\* C9 witness: a call has returned a destination that exists without a
\* single aws_cp invocation.
C9_Witness ==
    \E i \in 1..Len(hist) :
        hist[i].ret.kind = "return" /\ hist[i].cps = <<>> /\ hist[i].dest_present

\* C10: a call whose data copy failed (aws_cp returned False or raised) does
\* not return the destination path.
C10_CopyFailureReported ==
    \A i \in 1..Len(hist) :
        \A j \in 1..Len(hist[i].cps) :
            (hist[i].cps[j].kind = "data" /\ hist[i].cps[j].result # "True")
                => hist[i].ret.kind # "return"

\* the aws_cp invocations made so far: those of the calls that have ended
\* and those of the calls under way
Invocations ==
    UNION { { hist[i].cps[j] : j \in 1..Len(hist[i].cps) } : i \in 1..Len(hist) }
    \cup UNION { { cps[t][j] : j \in 1..Len(cps[t]) } : t \in Threads }

\* the argument that asks for the bytes of a range: start-end, or start- when
\* the range has no end
RangeArgument(byte_range) ==
    <<"bytes=">> \o byte_range.items[1] \o <<"-">>
    \o (IF Len(byte_range.items) < 2 THEN <<>> ELSE byte_range.items[2])

\* C11: every aws_cp invocation made with a byte range issues a command that
\* carries that range (its start, and its end or none); it is never the
\* command of a full-object copy.
C11_RangeCarried ==
    \A cp \in Invocations :
        (cp.byte_range.kind = "tuple" /\ cp.byte_range.items # <<>>)
            => \E k \in 1..Len(cp.commands) :
                   cp.commands[k] = RangeArgument(cp.byte_range)

\* s.endswith(p)
EndsWith(s, p) == Len(p) <= Len(s) /\ SubSeq(s, Len(s) - Len(p) + 1, Len(s)) = p

\* Reader(...) or set_region(...) has just succeeded
RegionJustSet == reader.made /\ ctl.result = "ok" /\ AllIdle /\ hist = <<>>

\* C12: right after set_region(r) succeeded, the remote key and the local
\* filename of a field both end with '.{r}{default extension}', r as given
\* or lower-cased, and the local filename has '_{field}' just before it.
C12_SameExtension ==
    RegionJustSet =>
        \E r \in {ctl.region, Lower[ctl.region]} :
            /\ EndsWith(build_path(reader), <<".", r>> \o product_file_ext)
            /\ EndsWith(LocalFilename(variant, reader, "RAIN1HR"),
                        <<"_", "RAIN1HR", ".", r>> \o product_file_ext)

\* C13: once _download_index_file is over (returned or raised), the Reader's
\* _file_ext and its path builder's file_ext are what they were before the
\* call, and no data copy is made from or to a path ending with '.idx'.
C13_IndexPathsSideEffectFree ==
    /\ \A t \in Threads :
          pc[t] \in {"resolve", "data_download", "data_cp"}
              => reader = cur[t].reader_before
    /\ \A i \in 1..Len(hist) : hist[i].reader_after = hist[i].reader_before
    /\ \A cp \in Invocations :
          cp.kind = "data"
              => ~EndsWith(cp.src, <<".idx">>) /\ ~EndsWith(cp.dest, <<".idx">>)

\* C14: a line with fewer than 7 columns is judged not matching, without an
\* exception, and the first line after it that satisfies the field's
\* criteria is still the one the range is taken from.
C14_ShortLinesSkipped ==
    Applied =>
        \A k \in 1..Len(q_lines) :
            Len(Record(k)) < 7
                => /\ q_match[k] = "False"
                   /\ \A j \in (k + 1)..Len(q_lines) :
                         (Qualifies(j) /\ \A i \in 1..(j - 1) : ~Qualifies(i))
                             => (q_range.kind = "tuple" /\ q_range.n = j)

\* the lines that satisfy the criteria of the field asked
QualifyingLines == { k \in 1..Len(q_lines) : Qualifies(k) }

\* C19: when several lines satisfy the field's criteria, a range that is
\* returned is taken from the first of them in file order.
C19_FirstMatchSelected ==
    (Applied /\ Cardinality(QualifyingLines) >= 2 /\ q_range.kind = "tuple")
        => /\ q_range.n \in QualifyingLines
           /\ \A j \in QualifyingLines : q_range.n <= j

\* caller t has asked aws_cp for a copy that has not ended yet
InFlight(t) == pc[t] \in {"dif_cp", "data_cp"}

\* C15: two copies to the same destination path are never in flight at the
\* same time.
C15_AtMostOneInFlight ==
    \A t \in Threads : \A u \in Threads \ {t} :
        (InFlight(t) /\ InFlight(u)) => cur[t].dest # cur[u].dest

\* C16: a call that returned its destination without copying the data (the
\* existence check of _download_file held) returned a completely written
\* file.
C16_NoPartialCacheHit ==
    \A i \in 1..Len(hist) :
        (/\ hist[i].ret.kind = "return"
         /\ \A j \in 1..Len(hist[i].cps) : hist[i].cps[j].kind # "data")
            => hist[i].dest_present

\* C17: every download_field call main() makes is for the whole field name
\* given as --fields, and main() makes one such call for it.
C17_MainCallsPerField ==
    /\ \A i \in 1..Len(hist) : hist[i].field = args.fields
    /\ \A t \in Threads : pc[t] # "idle" => cur[t].field = args.fields
    /\ Len(hist) <= 1

\* the aws_cp invocations of each call, ended or under way, in order
CallCps == { hist[i].cps : i \in 1..Len(hist) } \cup { cps[t] : t \in Threads }

\* C20: in every download_field call the index copy, if any, comes first
\* and carries no byte range, the data copy, if any, comes last, and there
\* is at most one of each; and the data copy is reached only with the index
\* file on disk, all its lines read, and a range taken from a line of it
\* that matches the field.
C20_Ordering ==
    /\ \A seq \in CallCps :
          /\ Len(seq) <= 2
          /\ \A j \in 1..Len(seq) :
                IF seq[j].kind = "index"
                THEN j = 1 /\ seq[j].byte_range = None /\ Len(seq[j].commands) = 5
                ELSE j = Len(seq)
    /\ \A t \in Threads :
          pc[t] \in {"data_download", "data_cp"}
              => /\ cur[t].index_filepath \in OnDisk
                 /\ cur[t].index_filepath \in files
                        => cur[t].file_lines = ReadLines(indexText)
                 /\ cur[t].byte_range.kind = "tuple"
                 /\ cur[t].byte_range.n \in 1..Len(cur[t].file_lines)
                 /\ _is_line_matching_field(cur[t].file_lines[cur[t].byte_range.n],
                                            cur[t].field) = "True"
    /\ \A i \in 1..Len(hist) :
          (\E j \in 1..Len(hist[i].cps) : hist[i].cps[j].kind = "data")
              => hist[i].index_filepath \in OnDisk

\* C20 witness: a call has ended after an index copy and then a data copy,
\* both successful.
C20_Witness ==
    \E i \in 1..Len(hist) :
        /\ Len(hist[i].cps) = 2
        /\ hist[i].cps[1].kind = "index" /\ hist[i].cps[1].result = "True"
        /\ hist[i].cps[2].kind = "data" /\ hist[i].cps[2].result = "True"
        /\ hist[i].ret.kind = "return"

\* C21: the append and the restore of _download_index_file act on the one
\* extension pair of the shared Reader, whatever the other caller is doing:
\* a caller entering saves the extensions it finds and appends '.idx' to
\* them, a caller leaving writes back the extensions it saved.
C21_SharedExtension ==
    [][\A t \in Threads :
          /\ (pc[t] = "dif" /\ pc'[t] # "dif")
                => /\ cur'[t].original_config_ext = reader.file_ext
                   /\ cur'[t].original_path_builder_ext = reader.pb_file_ext
                   /\ reader'.file_ext = reader.file_ext \o <<".idx">>
                   /\ reader'.pb_file_ext = reader.pb_file_ext \o <<".idx">>
          /\ (pc[t] = "dif_finally" /\ pc'[t] # "dif_finally")
                => /\ reader'.file_ext = cur[t].original_config_ext
                   /\ reader'.pb_file_ext = cur[t].original_path_builder_ext]_vars

\* C21 witness: in grib_downloading_lab.py, two calls that overlapped have
\* both ended; a data copy was asked from and to a path ending with '.idx',
\* and the Reader's extensions are left with '.idx' although they had none
\* before the calls.
C21_Witness ==
    /\ variant = "lab" /\ AllIdle /\ Len(hist) = 2
    /\ hist[1].thread # hist[2].thread
    /\ ~EndsWith(hist[1].reader_before.file_ext, <<".idx">>)
    /\ ~EndsWith(hist[2].reader_before.file_ext, <<".idx">>)
    /\ EndsWith(reader.file_ext, <<".idx">>)
    /\ EndsWith(reader.pb_file_ext, <<".idx">>)
    /\ \E cp \in Invocations :
          /\ cp.kind = "data"
          /\ EndsWith(cp.src, <<".idx">>) /\ EndsWith(cp.dest, <<".idx">>)

RECURSIVE IntOfStr(_)
\* the number a string of decimal digits stands for
IntOfStr(s) ==
    IF s = <<>> THEN 0
    ELSE 10 * IntOfStr(SubSeq(s, 1, Len(s) - 1))
         + (CHOOSE d \in 0..9 : Digits[d + 1] = s[Len(s)])

\* C22: every byte range given to aws_cp that has an end (a second element)
\* has its end greater than its start.
C22_EndAfterStart ==
    \A cp \in Invocations :
        (cp.byte_range.kind = "tuple" /\ Len(cp.byte_range.items) >= 2)
            => IntOfStr(cp.byte_range.items[2]) > IntOfStr(cp.byte_range.items[1])

\* C23: in grib_downloading_lab.py, whenever no operation of the Reader is
\* under way (after the constructor, set_region, get_local_filename,
\* get_source_path or download_field has returned or raised), _file_ext
\* equals the path builder's file_ext.
C23_SameExtensionAtRest ==
    (variant = "lab" /\ reader.made /\ AllIdle)
        => reader.file_ext = reader.pb_file_ext

\* C23 witness: a download_field call that copied the index file has raised
\* or returned, on a Reader whose region get_local_filename had changed.
C23_Witness ==
    /\ variant = "lab" /\ reader.made /\ AllIdle
    /\ ctl.op = "get_local_filename" /\ ctl.result = "ok"
    /\ reader.region = "hi"
    /\ \E i \in 1..Len(hist) :
          /\ hist[i].cps # <<>>
          /\ hist[i].reader_before.region = "hi"

\* ======================================================= ThreadTimer claims
\* C18: a get_result call raises RuntimeError exactly when the status is not
\* STOPPED; when it returns, the last successful start() or stop() was a
\* stop(); and it leaves _start, _end and _status as they were.
C18_GetResult ==
    [][tlog'.op = "get_result"
          => /\ timer' = timer
             /\ (tlog'.result = Raise("RuntimeError")) <=> (timer._status # "STOPPED")
             /\ tlog'.result.kind = "return" => tlog.last_ok = "stop"]_vars

\* C18 witness: get_result has returned the time between a start() and a
\* later stop().
C18_Witness ==
    /\ tlog.op = "get_result" /\ tlog.result.kind = "return"
    /\ timer._status = "STOPPED" /\ timer._end > timer._start /\ timer._start > 0

\* C24: the status becomes STOPPED only from STARTED: a stop() succeeds only
\* on a started timer, so a stop() on a timer that was never started is
\* rejected.
C24_StopOnlyAfterStart ==
    [][(timer'._status = "STOPPED" /\ timer._status # "STOPPED")
          => timer._status = "STARTED"]_vars

====
